---- MODULE Spec2Model ----
(***************************************************************************)
(* Model of yksanjo/job-market-intelligence:                               *)
(*   src/scrapers/greenhouse.py  (GreenhouseScraper, scrape_company)       *)
(*   src/extractors/skills.py    (SkillsExtractor, extract_from_job)       *)
(*                                                                         *)
(* Python strings are sequences.  In the scraper part a string is a        *)
(* sequence of URL/text segments (scheme, host, path, word); in the salary *)
(* and skills parts a string is a sequence of one-character strings.       *)
(* An Optional value is a sequence of length at most one: None is <<>>.    *)
(***************************************************************************)
EXTENDS Integers, Sequences, FiniteSets, TLC

VARIABLES
    \* ---- scrape_company / GreenhouseScraper ----
    pc,            \* position of the scrape_company coroutine
    board_token,   \* argument of scrape_company
    client,        \* self.client: "none", "open" or "closed"
    close_count,   \* number of client.aclose() calls
    requests,      \* the client.get calls issued so far, each with the client's state
    response,      \* the response (or transport failure) the awaited get resolved to
    result,        \* list[JobPosting] returned by get_board_jobs
    \* ---- _extract_salary ----
    metadata,      \* argument of _extract_salary
    salary,        \* its return value, once called
    spc,           \* "input" before the call, "extracted" after
    \* ---- extract_from_job ----
    job_text,      \* argument of extract_from_job
    report,        \* its return value, once called
    xpc,           \* "input" before the call, "extracted" after
    \* ---- categorize_skills ----
    skills_arg,    \* argument of categorize_skills
    categorized,   \* its return value, once called
    cpc            \* "input" before the call, "categorized" after

vars == <<pc, board_token, client, close_count, requests, response, result,
          metadata, salary, spc, job_text, report, xpc,
          skills_arg, categorized, cpc>>

scraperVars == <<pc, board_token, client, close_count, requests, response, result>>
salaryVars == <<metadata, salary, spc>>
skillsVars == <<job_text, report, xpc>>
categorizeVars == <<skills_arg, categorized, cpc>>

\* ---------------------------------------------------------------- bounds
MaxJobs == 2       \* entries in the "jobs" list of an API response
MaxCards == 2      \* job-card elements of an HTML listing page

\* ---------------------------------------------------------------- values
None == <<>>
Some(x) == <<x>>

SeqsUpTo(S, n) == UNION {[1..k -> S] : k \in 0..n}

\* ---------------------------------------------------------------- scraper inputs

\* A few of GREENHOUSE_BOARDS.
BoardTokens == {<<"airbnb">>, <<"stripe">>}

\* job["location"]: key missing, JSON null, object without "name", object with "name".
JsonLocations ==
    { [tag |-> "missing", name |-> None],
      [tag |-> "null",    name |-> None],
      [tag |-> "obj",     name |-> None],
      [tag |-> "obj",     name |-> Some(<<"Remote">>)] }

\* job["departments"]: key missing, JSON null, [], [{}], [{"name": ...}].
JsonDepartments ==
    { [tag |-> "missing", items |-> <<>>],
      [tag |-> "null",    items |-> <<>>],
      [tag |-> "list",    items |-> <<>>],
      [tag |-> "list",    items |-> <<[name |-> None]>>],
      [tag |-> "list",    items |-> <<[name |-> Some(<<"Engineering">>)]>>] }

\* job["absolute_url"]: key missing, "", an absolute URL.
JsonUrls ==
    { [tag |-> "missing", val |-> <<>>],
      [tag |-> "value",   val |-> <<>>],
      [tag |-> "value",   val |-> <<"https://", "boards.greenhouse.io", "/jobs/1">>] }

JsonJobs ==
    [title : {<<"Engineer">>}, location : JsonLocations,
     departments : JsonDepartments, absolute_url : JsonUrls]

StatusCodes == {200, 204, 404}

NoBody == [parseable |-> FALSE, has_jobs |-> FALSE, jobs |-> <<>>, cards |-> <<>>]

NoResponse == [kind |-> "none", outcome |-> "none", status_code |-> 0, body |-> NoBody]

\* What the JSON API request can resolve to: a transport error or timeout, a
\* non-200 status, a 200 whose body is not JSON, a 200 JSON object without
\* "jobs", a 200 JSON object with a "jobs" list.
ApiResponses ==
    { [kind |-> "api", outcome |-> "transport_error", status_code |-> 0, body |-> NoBody] }
    \cup { [kind |-> "api", outcome |-> "status", status_code |-> s, body |-> NoBody]
             : s \in StatusCodes }
    \cup { [kind |-> "api", outcome |-> "status", status_code |-> 200,
            body |-> [parseable |-> TRUE, has_jobs |-> FALSE, jobs |-> <<>>, cards |-> <<>>]] }
    \cup { [kind |-> "api", outcome |-> "status", status_code |-> 200,
            body |-> [parseable |-> TRUE, has_jobs |-> TRUE, jobs |-> js, cards |-> <<>>]]
             : js \in SeqsUpTo(JsonJobs, MaxJobs) }

\* The elements of one div.job-card: the first <a> (with or without href), an
\* <h2>, a span.location.
HtmlHrefs ==
    { [tag |-> "missing", val |-> <<>>],
      [tag |-> "value",   val |-> <<>>],
      [tag |-> "value",   val |-> <<"/jobs/1">>],
      [tag |-> "value",   val |-> <<"https://", "boards.greenhouse.io", "/jobs/1">>] }

HtmlTitleElems ==
    { [elem |-> "none", href |-> [tag |-> "missing", val |-> <<>>]],
      [elem |-> "h2",   href |-> [tag |-> "missing", val |-> <<>>]] }
    \cup { [elem |-> "a", href |-> h] : h \in HtmlHrefs }

HtmlCards ==
    [title_elem : HtmlTitleElems, text : {<<" ", "Engineer", " ">>},
     location_elem : {None, Some(<<" ", "Remote">>)}]

\* What the HTML listing request can resolve to.  Any document parses: a body
\* that is not a listing page is a page without cards.
HtmlResponses ==
    { [kind |-> "html", outcome |-> "transport_error", status_code |-> 0, body |-> NoBody] }
    \cup { [kind |-> "html", outcome |-> "status", status_code |-> s, body |-> NoBody]
             : s \in StatusCodes \ {200} }
    \cup { [kind |-> "html", outcome |-> "status", status_code |-> 200,
            body |-> [parseable |-> TRUE, has_jobs |-> FALSE, jobs |-> <<>>, cards |-> cs]]
             : cs \in SeqsUpTo(HtmlCards, MaxCards) }

\* ---------------------------------------------------------------- scraper functions

\* str.strip() on a segment sequence: drop leading and trailing blank segments.
RECURSIVE lstrip(_)
lstrip(s) == IF s # <<>> /\ Head(s) = " " THEN lstrip(Tail(s)) ELSE s

RECURSIVE rstrip(_)
rstrip(s) ==
    IF s # <<>> /\ s[Len(s)] = " " THEN rstrip(SubSeq(s, 1, Len(s) - 1)) ELSE s

strip(s) == rstrip(lstrip(s))

\* url.startswith("http")
startswith_http(url) == url # <<>> /\ Head(url) \in {"http://", "https://"}

\* job.get("location", {}).get("name") raises AttributeError on a JSON null.
location_raises(job) == job.location.tag = "null"

location_of(job) == job.location.name

\* job.get("departments", [{}])[0].get("name") if job.get("departments") else None
department_of(job) ==
    IF job.departments.tag = "list" /\ job.departments.items # <<>>
    THEN job.departments.items[1].name
    ELSE None

\* job.get("absolute_url", "")
job_url_of(job) == job.absolute_url.val

\* One JobPosting(...) of _parse_json_response.
json_posting(job, company) ==
    [title |-> job.title, company |-> company, location |-> location_of(job),
     department |-> department_of(job), job_url |-> job_url_of(job)]

\* _parse_json_response: the list of postings, or an exception out of the loop.
parse_json_response(data, company) ==
    IF \E i \in 1..Len(data.jobs) : location_raises(data.jobs[i])
    THEN [raised |-> TRUE, jobs |-> <<>>]
    ELSE [raised |-> FALSE,
          jobs |-> [i \in 1..Len(data.jobs) |-> json_posting(data.jobs[i], company)]]

\* The URL a card is emitted with.
card_url(card, token) ==
    LET url == card.title_elem.href.val
    IN IF url # <<>> /\ ~startswith_http(url)
       THEN <<"https://">> \o token \o <<".greenhouse.io">> \o url
       ELSE url

html_posting(card, token) ==
    [title |-> strip(card.text), company |-> token,
     location |-> IF card.location_elem # None
                  THEN Some(strip(card.location_elem[1])) ELSE None,
     department |-> None, job_url |-> card_url(card, token)]

\* The loop of _scrape_html_board over the job cards.
RECURSIVE scrape_cards(_, _)
scrape_cards(cards, token) ==
    IF cards = <<>> THEN <<>>
    ELSE IF Head(cards).title_elem.elem # "none"
         THEN <<html_posting(Head(cards), token)>> \o scrape_cards(Tail(cards), token)
         ELSE scrape_cards(Tail(cards), token)

\* response.raise_for_status(): anything but a 2xx raises.
raise_for_status(resp) == resp.status_code \notin {200, 204}

\* _scrape_html_board once its request has resolved.
scrape_html_board(resp, token) ==
    IF resp.outcome = "transport_error" \/ raise_for_status(resp)
    THEN [raised |-> TRUE, jobs |-> <<>>]
    ELSE [raised |-> FALSE, jobs |-> scrape_cards(resp.body.cards, token)]

\* Mutation of api_attempt: "if jobs: return jobs", which sends an empty
\* listing to the HTML fallback.
api_attempt_nonempty(resp, token) ==
    IF resp.outcome = "transport_error" THEN [returned |-> FALSE, jobs |-> <<>>]
    ELSE IF resp.status_code # 200 THEN [returned |-> FALSE, jobs |-> <<>>]
    ELSE IF ~resp.body.parseable THEN [returned |-> FALSE, jobs |-> <<>>]
    ELSE LET parsed == parse_json_response(resp.body, token)
         IN IF parsed.raised \/ parsed.jobs = <<>> THEN [returned |-> FALSE, jobs |-> <<>>]
            ELSE [returned |-> TRUE, jobs |-> parsed.jobs]

\* The try block of get_board_jobs once the API request has resolved: the
\* postings to return, or "fall through to the HTML fallback".
api_attempt(resp, token) ==
    IF resp.outcome = "transport_error" THEN [returned |-> FALSE, jobs |-> <<>>]
    ELSE IF resp.status_code # 200 THEN [returned |-> FALSE, jobs |-> <<>>]
    ELSE IF ~resp.body.parseable THEN [returned |-> FALSE, jobs |-> <<>>]
    ELSE LET parsed == parse_json_response(resp.body, token)
         IN IF parsed.raised THEN [returned |-> FALSE, jobs |-> <<>>]
            ELSE [returned |-> TRUE, jobs |-> parsed.jobs]

\* ---------------------------------------------------------------- idle parts
SalaryIdle == metadata = <<>> /\ salary = <<>> /\ spc = "idle"
SkillsIdle == job_text = <<>> /\ report = <<>> /\ xpc = "idle"
CategorizeIdle == skills_arg = <<>> /\ categorized = <<>> /\ cpc = "idle"
ScraperIdle ==
    /\ pc = "idle" /\ board_token = <<>> /\ client = "none" /\ close_count = 0
    /\ requests = <<>> /\ response = NoResponse /\ result = <<>>

otherThanScraper == <<salaryVars, skillsVars, categorizeVars>>

\* ---------------------------------------------------------------- scraper actions

ScraperInit ==
    /\ pc = "start" /\ board_token \in BoardTokens
    /\ client = "none" /\ close_count = 0
    /\ requests = <<>> /\ response = NoResponse /\ result = <<>>

\* async with GreenhouseScraper() as scraper: __init__ builds the client.
aenter ==
    /\ pc = "start"
    /\ client' = "open"
    /\ pc' = "entered"
    /\ UNCHANGED <<board_token, close_count, requests, response, result, otherThanScraper>>

\* get_board_jobs up to its first await: the JSON API request.
get_board_jobs ==
    /\ pc = "entered"
    /\ requests' = Append(requests, [kind |-> "api", client |-> client])
    /\ pc' = "await_api"
    /\ UNCHANGED <<board_token, client, close_count, response, result, otherThanScraper>>

\* The network resolves the JSON API request.
api_resolves ==
    /\ pc = "await_api"
    /\ \E r \in ApiResponses : response' = r
    /\ pc' = "api_resolved"
    /\ UNCHANGED <<board_token, client, close_count, requests, result, otherThanScraper>>

\* get_board_jobs resumes: return the mapped postings, or swallow the failure
\* and issue the HTML listing request of _scrape_html_board.
get_board_jobs_resume ==
    /\ pc = "api_resolved"
    /\ LET attempt == api_attempt(response, board_token)
       IN IF attempt.returned
          THEN /\ result' = attempt.jobs
               /\ pc' = "returned"
               /\ UNCHANGED <<requests, response>>
          ELSE /\ requests' = Append(requests, [kind |-> "html", client |-> client])
               /\ response' = NoResponse
               /\ pc' = "await_html"
               /\ UNCHANGED result
    /\ UNCHANGED <<board_token, client, close_count, otherThanScraper>>

\* The network resolves the HTML listing request.
html_resolves ==
    /\ pc = "await_html"
    /\ \E r \in HtmlResponses : response' = r
    /\ pc' = "html_resolved"
    /\ UNCHANGED <<board_token, client, close_count, requests, result, otherThanScraper>>

\* _scrape_html_board resumes: nothing catches what it raises.
scrape_html_board_resume ==
    /\ pc = "html_resolved"
    /\ LET scraped == scrape_html_board(response, board_token)
       IN IF scraped.raised
          THEN pc' = "raised" /\ UNCHANGED result
          ELSE pc' = "returned" /\ result' = scraped.jobs
    /\ UNCHANGED <<board_token, client, close_count, requests, response, otherThanScraper>>

\* Mutation of aexit: the client is closed after a return only, as a close()
\* placed after the await instead of in __aexit__ would do.
aexit_only_on_return ==
    /\ pc \in {"returned", "raised"}
    /\ IF pc = "returned"
       THEN client' = "closed" /\ close_count' = close_count + 1
       ELSE UNCHANGED <<client, close_count>>
    /\ pc' = IF pc = "returned" THEN "done" ELSE "done_raised"
    /\ UNCHANGED <<board_token, requests, response, result, otherThanScraper>>

\* __aexit__ runs on a return and on an exception alike, and closes the client.
aexit ==
    /\ pc \in {"returned", "raised"}
    /\ client' = "closed"
    /\ close_count' = close_count + 1
    /\ pc' = IF pc = "returned" THEN "done" ELSE "done_raised"
    /\ UNCHANGED <<board_token, requests, response, result, otherThanScraper>>

ScraperNext ==
    \/ aenter
    \/ get_board_jobs
    \/ api_resolves
    \/ get_board_jobs_resume
    \/ html_resolves
    \/ scrape_html_board_resume
    \/ aexit

Init == ScraperInit /\ SalaryIdle /\ SkillsIdle /\ CategorizeIdle

Next == ScraperNext

Spec == Init /\ [][Next]_vars

\* ---------------------------------------------------------------- characters

\* A Python str as the sequence of its characters.
Chars(s) == [i \in 1..Len(s) |-> SubSeq(s, i, i)]

UpperCase == Chars("ABCDEFGHIJKLMNOPQRSTUVWXYZ")
LowerCase == Chars("abcdefghijklmnopqrstuvwxyz")
Digits == Chars("0123456789")

\* The printable ASCII characters in code-point order, which is the order
\* Python compares str by (the backquote, which no TLA+ string can hold, is
\* left out: only the order of the others is used).
Ascii ==
    Chars(" !\"#$%&'()*+,-./0123456789:;<=>?@ABCDEFGHIJKLMNOPQRSTUVWXYZ")
    \o Chars("[\\]^_abcdefghijklmnopqrstuvwxyz{|}~")

IndexIn(c, table) == CHOOSE i \in 1..Len(table) : table[i] = c

IsIn(c, table) == \E i \in 1..Len(table) : table[i] = c

ord(c) == IndexIn(c, Ascii)

\* str.lower()
lower(s) ==
    [i \in 1..Len(s) |->
        IF IsIn(s[i], UpperCase) THEN LowerCase[IndexIn(s[i], UpperCase)] ELSE s[i]]

\* Mutation of contains: hay.startswith(needle)
starts_with(hay, needle) ==
    Len(needle) <= Len(hay) /\ SubSeq(hay, 1, Len(needle)) = needle

\* needle in hay
contains(hay, needle) ==
    \E i \in 0..(Len(hay) - Len(needle)) : SubSeq(hay, i + 1, i + Len(needle)) = needle

\* a < b on str
RECURSIVE str_lt(_, _)
str_lt(a, b) ==
    IF b = <<>> THEN FALSE
    ELSE IF a = <<>> THEN TRUE
    ELSE IF Head(a) = Head(b) THEN str_lt(Tail(a), Tail(b))
    ELSE ord(Head(a)) < ord(Head(b))

\* sorted(list(a_set)) for a set of str
RECURSIVE sorted(_)
sorted(S) ==
    IF S = {} THEN <<>>
    ELSE LET least == CHOOSE x \in S : \A y \in S \ {x} : str_lt(x, y)
         IN <<least>> \o sorted(S \ {least})

\* "".join(parts) and sep.join(parts)
RECURSIVE join(_, _)
join(sep, parts) ==
    IF parts = <<>> THEN <<>>
    ELSE IF Len(parts) = 1 THEN parts[1]
    ELSE parts[1] \o sep \o join(sep, Tail(parts))

Elems(seq) == {seq[i] : i \in 1..Len(seq)}

\* ================================================================ _extract_salary

MaxLen == 3        \* characters of an explored salary value
MaxItems == 2      \* items of a metadata list with more than one item

IsDigit(c) == IsIn(c, Digits)

DigitVal(c) == IndexIn(c, Digits) - 1

\* str.replace(old, new) for a one-character old
RECURSIVE replace(_, _, _)
replace(s, old, new) ==
    IF s = <<>> THEN <<>>
    ELSE (IF Head(s) = old THEN new ELSE <<Head(s)>>) \o replace(Tail(s), old, new)

\* re.findall(r'\d+', s): the scan, with the digit run collected so far
RECURSIVE findall_scan(_, _)
findall_scan(s, run) ==
    LET flushed == IF run = <<>> THEN <<>> ELSE <<run>>
    IN IF s = <<>> THEN flushed
       ELSE IF IsDigit(Head(s)) THEN findall_scan(Tail(s), Append(run, Head(s)))
       ELSE flushed \o findall_scan(Tail(s), <<>>)

findall_digits(s) == findall_scan(s, <<>>)

\* int(digits)
RECURSIVE int(_)
int(d) ==
    IF d = <<>> THEN 0
    ELSE 10 * int(SubSeq(d, 1, Len(d) - 1)) + DigitVal(d[Len(d)])

\* numbers = re.findall(r'\d+', value.replace("k", "000").replace("K", "000"))
salary_numbers(value) ==
    findall_digits(replace(replace(value, "k", Chars("000")), "K", Chars("000")))

\* Mutation of salary_pair: the two numbers put in order.
salary_pair_sorted(numbers) ==
    IF Len(numbers) >= 2
    THEN IF int(numbers[1]) <= int(numbers[2])
         THEN <<Some(int(numbers[1])), Some(int(numbers[2]))>>
         ELSE <<Some(int(numbers[2])), Some(int(numbers[1]))>>
    ELSE <<Some(int(numbers[1])), Some(int(numbers[1]))>>

\* The two returns inside the loop, for a non-empty numbers.
salary_pair(numbers) ==
    IF Len(numbers) >= 2
    THEN <<Some(int(numbers[1])), Some(int(numbers[2]))>>
    ELSE <<Some(int(numbers[1])), Some(int(numbers[1]))>>

\* _extract_salary: the first "salary" item with a number decides; an item
\* without one lets the loop go on.
RECURSIVE extract_salary(_)
extract_salary(md) ==
    IF md = <<>> THEN <<None, None>>
    ELSE LET item == Head(md)
         IN IF contains(lower(item.name), Chars("salary"))
               /\ Len(salary_numbers(item.value)) >= 1
            THEN salary_pair(salary_numbers(item.value))
            ELSE extract_salary(Tail(md))

\* ---- inputs
SalaryAlphabet == Elems(Chars("12kK-"))

ExampleValues ==
    { Chars("$150k - $200k"), Chars("$120,000"), Chars("competitive"), Chars("150k-90k") }

SalaryValues == SeqsUpTo(SalaryAlphabet, MaxLen) \cup ExampleValues

MetadataNames == { Chars("Salary Range"), Chars("Team") }

MetadataItems(values) == [name : MetadataNames, value : values]

\* A list of one item with any explored value, or a list of several items
\* with the example values.
MetadataInputs ==
    {<<it>> : it \in MetadataItems(SalaryValues)}
    \cup SeqsUpTo(MetadataItems(ExampleValues), MaxItems)

\* ---- actions
SalaryInit == spc = "input" /\ metadata \in MetadataInputs /\ salary = <<>>

call_extract_salary ==
    /\ spc = "input"
    /\ salary' = extract_salary(metadata)
    /\ spc' = "extracted"
    /\ UNCHANGED <<metadata, scraperVars, skillsVars, categorizeVars>>

InitSalary == ScraperIdle /\ SalaryInit /\ SkillsIdle /\ CategorizeIdle

NextSalary == call_extract_salary

SpecSalary == InitSalary /\ [][NextSalary]_vars

\* ================================================================ SkillsExtractor

MaxWords == 2      \* words of an explored job text
MaxSkills == 3     \* entries of an explored categorize_skills argument

SKILL_DATABASE ==
    { Chars(s) : s \in {
      \* Programming Languages
      "python", "javascript", "typescript", "java", "go", "rust", "c++", "c#", "ruby",
      "php", "swift", "kotlin", "scala", "r", "matlab", "perl", "shell",
      \* Frontend
      "react", "vue", "angular", "svelte", "next.js", "nuxt", "gatsby",
      "html", "css", "sass", "tailwind", "bootstrap", "webpack", "vite",
      \* Backend
      "node.js", "express", "django", "flask", "fastapi", "rails", "spring",
      "graphql", "rest", "grpc", "websocket",
      \* Databases
      "postgresql", "mysql", "mongodb", "redis", "elasticsearch", "dynamodb",
      "cassandra", "firebase", "supabase", "prisma",
      \* Cloud & DevOps
      "aws", "gcp", "azure", "docker", "kubernetes", "terraform", "ansible",
      "jenkins", "github actions", "gitlab ci", "circleci", "cloudformation",
      \* ML/AI
      "machine learning", "deep learning", "tensorflow", "pytorch", "keras",
      "nlp", "computer vision", "pandas", "numpy", "scikit-learn",
      "llm", "gpt", "langchain", "hugging face",
      \* Data Engineering
      "spark", "hadoop", "kafka", "airflow", "dbt", "etl", "data pipeline",
      \* Mobile
      "react native", "flutter", "ios", "android", "swiftui", "jetpack compose",
      \* Other
      "git", "linux", "agile", "scrum", "ci/cd", "rest api", "microservices",
      "system design", "oauth", "jwt", "websocket" } }

\* Mutation of extract_skills: the text is not case-folded.
extract_skills_case_sensitive(text) ==
    sorted({skill \in SKILL_DATABASE : contains(text, skill)})

\* extract_skills
extract_skills(text) ==
    LET text_lower == lower(text)
        found_skills == {skill \in SKILL_DATABASE : contains(text_lower, skill)}
    IN sorted(found_skills)

language_skills ==
    { Chars(s) : s \in {"python", "javascript", "typescript", "java", "go", "rust",
                        "c++", "c#", "ruby", "php", "swift", "kotlin", "scala"} }
frontend_skills ==
    { Chars(s) : s \in {"react", "vue", "angular", "svelte", "next.js", "html", "css"} }
backend_skills ==
    { Chars(s) : s \in {"node.js", "express", "django", "flask", "graphql", "rest"} }
db_skills ==
    { Chars(s) : s \in {"postgresql", "mysql", "mongodb", "redis", "elasticsearch"} }
cloud_skills ==
    { Chars(s) : s \in {"aws", "gcp", "azure", "docker", "kubernetes"} }
ml_skills ==
    { Chars(s) : s \in {"machine learning", "deep learning", "tensorflow", "pytorch", "nlp"} }

\* The keys of the categories dict categorize_skills starts from.
CategoryKeys ==
    {"languages", "frontend", "backend", "databases", "cloud", "ml_ai", "devops", "other"}

\* The if/elif chain of the loop: the list one skill is appended to.
bucket_of(skill) ==
    IF skill \in language_skills THEN "languages"
    ELSE IF skill \in frontend_skills THEN "frontend"
    ELSE IF skill \in backend_skills THEN "backend"
    ELSE IF skill \in db_skills THEN "databases"
    ELSE IF skill \in cloud_skills THEN "cloud"
    ELSE IF skill \in ml_skills THEN "ml_ai"
    ELSE "other"

\* categories[k] once the loop has run
bucket(skills, k) == SelectSeq(skills, LAMBDA skill : bucket_of(skill) = k)

\* Mutation of categorize_skills: the categories dict returned as it is.
categorize_skills_keep_empty(skills) ==
    [k \in CategoryKeys |-> bucket(skills, k)]

\* categorize_skills: {k: v for k, v in categories.items() if v}
categorize_skills(skills) ==
    [k \in {c \in CategoryKeys : bucket(skills, c) # <<>>} |-> bucket(skills, k)]

\* extract_from_job
extract_from_job(text) ==
    LET skills == extract_skills(text)
    IN [skills |-> skills,
        categories |-> categorize_skills(skills),
        total_count |-> Len(skills)]

\* ---- inputs
ExampleText == Chars("Python, React, PostgreSQL, AWS, Docker")

Words ==
    { Chars(s) : s \in {"Python", "React", "PostgreSQL", "AWS", "Docker",
                        "Deep Learning", "OAuth", "Go", "REST API", "team"} }

\* Job texts: up to MaxWords words separated by ", ", and the example sentence.
JobTexts ==
    {join(Chars(", "), ws) : ws \in SeqsUpTo(Words, MaxWords)} \cup {ExampleText}

SkillPool ==
    { Chars(s) : s \in {"python", "java", "react", "django", "redis", "aws", "nlp",
                        "terraform", "r"} }

\* ---- actions
SkillsInit == xpc = "input" /\ job_text \in JobTexts /\ report = <<>>

call_extract_from_job ==
    /\ xpc = "input"
    /\ report' = extract_from_job(job_text)
    /\ xpc' = "extracted"
    /\ UNCHANGED <<job_text, scraperVars, salaryVars, categorizeVars>>

InitSkills == ScraperIdle /\ SalaryIdle /\ SkillsInit /\ CategorizeIdle

NextSkills == call_extract_from_job

SpecSkills == InitSkills /\ [][NextSkills]_vars

CategorizeInit ==
    cpc = "input" /\ skills_arg \in SeqsUpTo(SkillPool, MaxSkills) /\ categorized = <<>>

call_categorize_skills ==
    /\ cpc = "input"
    /\ categorized' = categorize_skills(skills_arg)
    /\ cpc' = "categorized"
    /\ UNCHANGED <<skills_arg, scraperVars, salaryVars, skillsVars>>

InitCategorize == ScraperIdle /\ SalaryIdle /\ SkillsIdle /\ CategorizeInit

NextCategorize == call_categorize_skills

SpecCategorize == InitCategorize /\ [][NextCategorize]_vars

\* ================================================================ properties

Completed == pc \in {"done", "done_raised"}

\* C1: get_board_jobs never lets a fetch failure escape: whatever the two
\* requests resolve to, the call returns a sequence of records and no
\* exception reaches the caller.
C1_NoFailureEscapes == pc \notin {"raised", "done_raised"}

\* C2: every record either adapter path emits has a non-empty company and a
\* non-empty job_url; an entry without a URL is dropped.
C2_RecordsCarryCompanyAndUrl ==
    pc \in {"returned", "done"} =>
        \A i \in 1..Len(result) :
            result[i].company # <<>> /\ result[i].job_url # <<>>

ClaimOk200(resp) ==
    resp.kind = "api" /\ resp.outcome = "status" /\ resp.status_code = 200
    /\ resp.body.parseable

ClaimName(field) == IF field.tag = "obj" THEN field.name ELSE None

ClaimDepartment(field) ==
    IF field.tag = "list" /\ Len(field.items) > 0 THEN field.items[1].name ELSE None

\* C3: for a 200 JSON response, a location or department absent at any
\* nesting level never raises and never aborts a record: one record per listed
\* job comes back, with the absent field None and the other fields and
\* entries intact, and the HTML fallback is not taken.
C3_AbsentFieldsNeverAbort ==
    [][ (pc = "api_resolved" /\ ClaimOk200(response)) =>
            /\ pc' = "returned"
            /\ requests' = requests
            /\ Len(result') = Len(response.body.jobs)
            /\ \A i \in 1..Len(response.body.jobs) :
                   /\ result'[i].location = ClaimName(response.body.jobs[i].location)
                   /\ result'[i].department
                          = ClaimDepartment(response.body.jobs[i].departments)
                   /\ result'[i].title = response.body.jobs[i].title ]_vars

\* C4: in scrape_company the client is closed exactly once before the call
\* completes, whether get_board_jobs returned or raised, and every request was
\* issued on an open client.
C4_ClientReleasedOnce ==
    /\ \A i \in 1..Len(requests) : requests[i].client = "open"
    /\ Completed => client = "closed" /\ close_count = 1
    /\ ~Completed => client # "closed" /\ close_count = 0

C4_Witness ==
    pc = "done_raised" /\ close_count = 1 /\ Len(requests) = 2

HtmlRequests(reqs) == {i \in 1..Len(reqs) : reqs[i].kind = "html"}

ClaimApiFailed(resp) ==
    \/ resp.outcome = "transport_error"
    \/ resp.status_code # 200
    \/ ~resp.body.parseable
    \/ parse_json_response(resp.body, board_token).raised

\* C10: the HTML listing request is issued only after the JSON API request
\* has failed, and at most once; a 200 with JSON that maps returns the mapped
\* records without any HTML request, even when there are none.
C10_HtmlOnlyAfterApiFailure ==
    [][ /\ (HtmlRequests(requests') # HtmlRequests(requests)) =>
               /\ pc = "api_resolved"
               /\ ClaimApiFailed(response)
               /\ HtmlRequests(requests) = {}
               /\ Cardinality(HtmlRequests(requests')) = 1
               /\ requests[Len(requests)].kind = "api"
        /\ (pc = "api_resolved" /\ ~ClaimApiFailed(response)) =>
               /\ pc' = "returned"
               /\ requests' = requests
               /\ Len(result') = Len(response.body.jobs)
               /\ result' = parse_json_response(response.body, board_token).jobs ]_vars

C10_Witness ==
    /\ pc = "returned" /\ response.kind = "api" /\ response.body.has_jobs
    /\ result = <<>> /\ Len(requests) = 1

\* ---- the salary policy, stated on the value itself

IsK(c) == c \in {"k", "K"}

\* Where character i of the value begins once every k/K has become 000.
ClaimStart(v, i) == i + 2 * Cardinality({j \in 1..(i - 1) : IsK(v[j])})

ClaimExpanded(v) ==
    [n \in 1..(ClaimStart(v, Len(v) + 1) - 1) |->
        LET i == CHOOSE j \in 1..Len(v) : ClaimStart(v, j) <= n /\ n < ClaimStart(v, j + 1)
        IN IF IsK(v[i]) THEN "0" ELSE v[i]]

\* The maximal digit runs of e, as <<first index, last index>>.
ClaimRuns(e) ==
    {r \in (1..Len(e)) \X (1..Len(e)) :
        /\ r[1] <= r[2]
        /\ \A x \in r[1]..r[2] : IsDigit(e[x])
        /\ (r[1] = 1 \/ ~IsDigit(e[r[1] - 1]))
        /\ (r[2] = Len(e) \/ ~IsDigit(e[r[2] + 1]))}

RECURSIVE ClaimPow10(_)
ClaimPow10(n) == IF n = 0 THEN 1 ELSE 10 * ClaimPow10(n - 1)

RECURSIVE ClaimRunValue(_, _, _)
ClaimRunValue(e, lo, hi) ==
    IF lo > hi THEN 0
    ELSE (IF DigitVal(e[lo]) = 0 THEN 0 ELSE DigitVal(e[lo]) * ClaimPow10(hi - lo))
         + ClaimRunValue(e, lo + 1, hi)

\* The k-th run from the left.
ClaimNthRun(runs, k) ==
    CHOOSE r \in runs : Cardinality({q \in runs : q[1] < r[1]}) = k - 1

ClaimSalary(v) ==
    LET e == ClaimExpanded(v)
        runs == ClaimRuns(e)
        val(k) == ClaimRunValue(e, ClaimNthRun(runs, k)[1], ClaimNthRun(runs, k)[2])
    IN IF Cardinality(runs) >= 2 THEN <<Some(val(1)), Some(val(2))>>
       ELSE IF Cardinality(runs) = 1 THEN <<Some(val(1)), Some(val(1))>>
       ELSE <<None, None>>

ClaimDeciding(md) ==
    {i \in 1..Len(md) :
        /\ contains(lower(md[i].name), Chars("salary"))
        /\ ClaimRuns(ClaimExpanded(md[i].value)) # {}}

\* C5: _extract_salary expands k/K to 000, takes the maximal digit runs left
\* to right and returns (first, second) unswapped for two or more runs, (n, n)
\* for one, (None, None) for none, the value being that of the first salary
\* item that holds a number; salary_min is None exactly when salary_max is.
C5_SalaryPolicy ==
    spc = "extracted" =>
        /\ (salary[1] = None) <=> (salary[2] = None)
        /\ LET D == ClaimDeciding(metadata)
           IN IF D = {} THEN salary = <<None, None>>
              ELSE salary = ClaimSalary(metadata[CHOOSE i \in D : \A j \in D : i <= j].value)

C5_Witness ==
    /\ spc = "extracted" /\ Len(metadata) = 1
    /\ \E i \in 1..Len(metadata[1].value) : IsK(metadata[1].value[i])
    /\ salary[1] # None /\ salary[2] # None
    /\ salary[1][1] > salary[2][1]

ClaimSalaryOf(text) ==
    spc = "extracted" /\ metadata = <<[name |-> Chars("Salary Range"), value |-> Chars(text)]>>

\* C6: "$120,000" yields (120000, 120000), "$150k - $200k" yields
\* (150000, 200000), "competitive" yields (None, None) and "150k-90k" yields
\* (150000, 90000).
C6_ExampleSalaries ==
    /\ ClaimSalaryOf("$120,000") => salary = <<Some(120000), Some(120000)>>
    /\ ClaimSalaryOf("$150k - $200k") => salary = <<Some(150000), Some(200000)>>
    /\ ClaimSalaryOf("competitive") => salary = <<None, None>>
    /\ ClaimSalaryOf("150k-90k") => salary = <<Some(150000), Some(90000)>>

\* ---- skills

ClaimExampleCategories ==
    \A k \in {"languages", "frontend", "databases", "cloud"} :
        k \in DOMAIN report.categories /\ report.categories[k] # <<>>

\* C7 as stated: the example sentence yields total_count 5, with non-empty
\* languages, frontend, databases and cloud categories, and total_count is the
\* number of skills returned.
C7_ExampleCountsFive ==
    xpc = "extracted" =>
        /\ report.total_count = Len(report.skills)
        /\ job_text = ExampleText => report.total_count = 5 /\ ClaimExampleCategories

\* C7 as amended: the example sentence yields total_count 6, its five named
\* skills and "r", matched inside the other words, with non-empty languages,
\* frontend, databases and cloud categories; total_count is the number of
\* skills returned.
C7_ExampleCountsSix ==
    xpc = "extracted" =>
        /\ report.total_count = Len(report.skills)
        /\ job_text = ExampleText =>
               /\ report.total_count = 6
               /\ report.skills = << Chars("aws"), Chars("docker"), Chars("postgresql"),
                                     Chars("python"), Chars("r"), Chars("react") >>
               /\ ClaimExampleCategories

C7_Witness ==
    xpc = "extracted" /\ job_text = ExampleText /\ report.total_count = 6

ClaimRematch == extract_skills(join(<<>>, report.skills))

\* C8 as stated: extract_skills of the concatenation of extract_skills(text)
\* is extract_skills(text) again.
C8_MatcherIdempotent ==
    xpc = "extracted" => ClaimRematch = report.skills

\* C8 as amended: extract_skills of the concatenation of extract_skills(text)
\* holds every skill of extract_skills(text); the concatenation loses no match
\* (it can create one across the boundary of two adjacent entries).
C8_RematchKeepsEveryMatch ==
    xpc = "extracted" => Elems(report.skills) \subseteq Elems(ClaimRematch)

C8_Witness ==
    /\ xpc = "extracted" /\ Len(report.skills) >= 2
    /\ Elems(report.skills) # Elems(ClaimRematch)

\* ---- categorizer

ClaimBucketOrder ==
    <<"languages", "frontend", "backend", "databases", "cloud", "ml_ai", "other">>

ClaimFits(skill, k) ==
    CASE k = "languages" -> skill \in language_skills
      [] k = "frontend"  -> skill \in frontend_skills
      [] k = "backend"   -> skill \in backend_skills
      [] k = "databases" -> skill \in db_skills
      [] k = "cloud"     -> skill \in cloud_skills
      [] k = "ml_ai"     -> skill \in ml_skills
      [] OTHER           -> TRUE

ClaimFirstBucket(skill) ==
    ClaimBucketOrder[CHOOSE i \in 1..Len(ClaimBucketOrder) :
        /\ ClaimFits(skill, ClaimBucketOrder[i])
        /\ \A j \in 1..(i - 1) : ~ClaimFits(skill, ClaimBucketOrder[j])]

RECURSIVE ClaimSizes(_, _)
ClaimSizes(cats, keys) ==
    IF keys = {} THEN 0
    ELSE LET k == CHOOSE x \in keys : TRUE
         IN Len(cats[k]) + ClaimSizes(cats, keys \ {k})

ClaimNoRepeat(seq) == Cardinality(Elems(seq)) = Len(seq)

\* C9: categorize_skills partitions its input: every input skill is in
\* exactly one bucket, the first that fits in the order languages, frontend,
\* backend, databases, cloud, ml_ai, other; the bucket sizes add up to the
\* number of input skills (the number of distinct skills for a skill set);
\* every key of the result maps to a non-empty list, and language skills
\* alone give exactly one key.
C9_CategorizerPartitions ==
    cpc = "categorized" =>
        /\ \A k \in DOMAIN categorized :
               k \in Elems(ClaimBucketOrder) /\ categorized[k] # <<>>
        /\ \A skill \in Elems(skills_arg) :
               {k \in DOMAIN categorized : skill \in Elems(categorized[k])}
                   = {ClaimFirstBucket(skill)}
        /\ ClaimSizes(categorized, DOMAIN categorized) = Len(skills_arg)
        /\ ClaimNoRepeat(skills_arg) =>
               ClaimSizes(categorized, DOMAIN categorized) = Cardinality(Elems(skills_arg))
        /\ (skills_arg # <<>> /\ Elems(skills_arg) \subseteq language_skills) =>
               DOMAIN categorized = {"languages"}

C9_Witness ==
    /\ cpc = "categorized" /\ ClaimNoRepeat(skills_arg)
    /\ Cardinality(DOMAIN categorized) = 3
    /\ "other" \in DOMAIN categorized
====
